---- MODULE Spec2Model ----
(***************************************************************************)
(* Employee CRUD API of the company_basic and company_ninja_crud apps, the *)
(* bearer-token gate in front of it and the seed management command.       *)
(*                                                                         *)
(* The database is the shared state.  A request is carried by a worker:    *)
(* Receive runs the auth gate and the schema validation (neither writes),  *)
(* then the handler runs one database call per step, then Respond sends    *)
(* the answer.  Spec has one worker (one request at a time); SpecConc has  *)
(* two workers whose PATCH requests interleave at the database calls.      *)
(***************************************************************************)
EXTENDS Integers, Sequences, FiniteSets, TLC

VARIABLES users, departments, projects, employees, nextEmployeeId, seedRuns, req

vars == <<users, departments, projects, employees, nextEmployeeId, seedRuns, req>>

(* ------------------------------ bounds -------------------------------- *)

\* employees the API may create per app (the seeder's employee comes on top)
MaxEmployees == 1
\* invocations of the seed command
MaxSeedRuns == 2

(* ------------------------------ values -------------------------------- *)

Variants == {"basic", "ninja_crud"}
Workers == {1, 2}

\* Python None: "None" where the value is a date, 0 where it is an id (ids
\* start at 1), the empty set where it is a user record
None == "None"
NoId == 0
NoUser == {}

\* strings are sequences of characters, so that stripping is computed
Bob == <<"B", "o", "b">>
Smith == <<"S", "m", "i", "t", "h">>
Al == <<"A", "l">>
AlPadded == <<" ", "A", "l", " ">>
Lee == <<"L", "e", "e">>
Today == "today"
Bday == "1990-01-01"

Range(s) == {s[i] : i \in DOMAIN s}

(* ------------------- pydantic: str_strip_whitespace -------------------- *)

RECURSIVE LStrip(_)
LStrip(s) == IF s # <<>> /\ Head(s) = " " THEN LStrip(Tail(s)) ELSE s

RECURSIVE RStrip(_)
RStrip(s) ==
    IF s # <<>> /\ s[Len(s)] = " " THEN RStrip(SubSeq(s, 1, Len(s) - 1)) ELSE s

Strip(s) == RStrip(LStrip(s))

(* ----------------------------- auth gate ------------------------------- *)

\* A token is a sequence of pieces; ":" is the separator character and every
\* other piece stands for a run of characters holding no ":".  The
\* Authorization header is <<"Bearer">> followed by the token, or <<>> when
\* the request has none.
NoHeader == <<>>
Bearer(token) == <<"Bearer">> \o token
Secret == <<"supersecret">>

RECURSIVE SplitFrom(_, _, _, _)
SplitFrom(token, i, cur, acc) ==
    IF i > Len(token) THEN Append(acc, cur)
    ELSE IF token[i] = ":" THEN SplitFrom(token, i + 1, <<>>, Append(acc, cur))
    ELSE SplitFrom(token, i + 1, Append(cur, token[i]), acc)

\* token.split(":")
Split(token) == SplitFrom(token, 1, <<>>, <<>>)

\* the id the ORM makes of the string it is given; it raises ValueError when
\* the string is no number
DigitValue == [d \in {"1", "2", "3"} |-> IF d = "1" THEN 1 ELSE IF d = "2" THEN 2 ELSE 3]
IsNumber(part) == Len(part) = 1 /\ part[1] \in DOMAIN DigitValue
ToInt(part) == DigitValue[part[1]]

AnonymousUser == [id |-> NoId, username |-> "AnonymousUser"]

\* get_user_model().objects.filter(id=user_id).first(): the record, or None
UserById(us, uid) == {u \in us : u.id = uid}

\* `user or AnonymousUser()`
OrAnonymous(user) == IF user # NoUser THEN CHOOSE u \in user : TRUE ELSE AnonymousUser

\* DummyAuthBearer.authenticate of company_ninja_crud: the value returned
\* (ret), the user forced onto the request (user), or the exception raised.
authenticate(us, token) ==
    LET split == Split(token) IN
    IF Len(split) # 2 THEN [ret |-> NoUser, user |-> NoUser, raised |-> FALSE]
    ELSE IF split[1] # Secret THEN [ret |-> NoUser, user |-> NoUser, raised |-> FALSE]
    ELSE IF ~IsNumber(split[2]) THEN [ret |-> NoUser, user |-> NoUser, raised |-> TRUE]
    ELSE LET user == UserById(us, ToInt(split[2])) IN
         [ret |-> user, user |-> {OrAnonymous(user)}, raised |-> FALSE]

\* DummyAuthBearer of company_basic, as the gate's contract describes it:
\* two parts and the fixed secret, then the user record or the anonymous
\* placeholder, attached to the request.
basic_authenticate(us, token) ==
    LET split == Split(token) IN
    IF Len(split) # 2 \/ split[1] # Secret
    THEN [ret |-> NoUser, user |-> NoUser, raised |-> FALSE]
    ELSE LET user == IF IsNumber(split[2]) THEN UserById(us, ToInt(split[2])) ELSE NoUser
             attached == {OrAnonymous(user)} IN
         [ret |-> attached, user |-> attached, raised |-> FALSE]

\* the gate each router is built with
Gate(variant, us, token) ==
    IF variant = "basic" THEN basic_authenticate(us, token)
    ELSE authenticate(us, token)

\* a faulty gate: its answer is taken from the user it put on the request
AuthOutcomeByRequestUser(variant, us, header) ==
    IF header = NoHeader \/ Head(header) # "Bearer" THEN "unauthenticated"
    ELSE LET a == Gate(variant, us, Tail(header)) IN
         IF a.raised THEN "error"
         ELSE IF a.user # NoUser THEN "ok"
         ELSE "unauthenticated"

\* HttpBearer and NinjaAPI(auth=...): without a bearer token the gate is not
\* asked; an exception in the gate is a server error; the request goes on to
\* its handler only when the gate returned something true-like.
AuthOutcome(variant, us, header) ==
    IF header = NoHeader \/ Head(header) # "Bearer" THEN "unauthenticated"
    ELSE LET a == Gate(variant, us, Tail(header)) IN
         IF a.raised THEN "error"
         ELSE IF a.ret # NoUser THEN "ok"
         ELSE "unauthenticated"

\* request.user after the gate
RequestUser(variant, us, header) ==
    IF header = NoHeader \/ Head(header) # "Bearer" THEN NoUser
    ELSE Gate(variant, us, Tail(header)).user

(* ----------------------------- data model ------------------------------ *)

\* Department {id, title}; Project {id, title, department_id}; Employee
\* {first_name, last_name, birthdate, department_id, projects}, keyed by id.
\* projects is the set of project ids of the employee's rows in the
\* many-to-many table.

DepartmentIds(v) == {d.id : d \in departments[v]}
ProjectIds(v) == {p.id : p \in projects[v]}
EmployeeIds(v) == DOMAIN employees[v]

\* Employee.department of company_basic: the variant whose department is
\* optional
BasicDepartmentNullable == TRUE

\* Employee.department of company_ninja_crud is a ForeignKey without null=True
DepartmentNullable(v) == IF v = "basic" THEN BasicDepartmentNullable ELSE FALSE

\* what the database checks when an employee row is written
EmployeeRowOk(v, row) ==
    /\ row.department_id = NoId => DepartmentNullable(v)
    /\ row.department_id # NoId => row.department_id \in DepartmentIds(v)

\* a faulty set: only the first id of the list is associated
ProjectsSetFirstOnly(ids) == IF ids = <<>> THEN {} ELSE {Head(ids)}

\* employee.projects.set(ids): the rows are replaced in one transaction, which
\* the database refuses when an id names no project
ProjectsSetOk(v, ids) == Range(ids) \subseteq ProjectIds(v)
ProjectsSet(ids) == Range(ids)

Put(table, id, row) == [i \in DOMAIN table \cup {id} |-> IF i = id THEN row ELSE table[i]]
Remove(table, id) == [i \in DOMAIN table \ {id} |-> table[i]]

Get(d, k, default) == IF k \in DOMAIN d THEN d[k] ELSE default

\* the orders in which a query without ORDER BY may return a set of ids
Orders(S) ==
    {q \in UNION {[1..n -> S] : n \in {Cardinality(S)}} : Range(q) = S}

\* EmployeeResponse of a row, resolve_project_ids having listed the projects
\* in the order q
EmployeeResponse(id, row, q) ==
    [id |-> id, first_name |-> row.first_name, last_name |-> row.last_name,
     department_id |-> row.department_id, project_ids |-> q,
     birthdate |-> row.birthdate]

resolve_project_ids(row) == Orders(row.projects)

(* -------------------------------- seeder ------------------------------- *)

\* a faulty user table: usernames need not be unique
UsernameNeverTaken(us, username) == FALSE

\* create_user: usernames are unique
UsernameTaken(us, username) == \E u \in us : u.username = username

NextId(table) == Cardinality(table) + 1

\* _seed_basic_app / _seed_ninja_crud_app: the same statements on each app's
\* tables
SeedDepartments(ds) ==
    ds \cup {[id |-> NextId(ds), title |-> "Growth"],
             [id |-> NextId(ds) + 1, title |-> "Infrastructure"]}

SeedProjects(ds, ps) ==
    ps \cup {[id |-> NextId(ps), title |-> "Growth Project", department_id |-> NextId(ds)],
             [id |-> NextId(ps) + 1, title |-> "Infrastructure Project",
              department_id |-> NextId(ds) + 1]}

SeedEmployee(ds, ps) ==
    [first_name |-> Bob, last_name |-> Smith, department_id |-> NextId(ds),
     birthdate |-> Today, projects |-> {NextId(ps), NextId(ps) + 1}]

Idle == [pc |-> "idle"]

\* Command.handle.  The command is run from the shell while no request is in
\* flight.  When create_user raises, the command ends there.
Seed ==
    /\ seedRuns < MaxSeedRuns
    /\ \A w \in Workers : req[w].pc = "idle"
    /\ seedRuns' = seedRuns + 1
    /\ IF UsernameTaken(users, "testuser")
       THEN UNCHANGED <<users, departments, projects, employees, nextEmployeeId>>
       ELSE /\ users' = users \cup {[id |-> NextId(users), username |-> "testuser"]}
            /\ departments' = [v \in Variants |-> SeedDepartments(departments[v])]
            /\ projects' = [v \in Variants |-> SeedProjects(departments[v], projects[v])]
            /\ employees' = [v \in Variants |->
                   Put(employees[v], nextEmployeeId[v],
                       SeedEmployee(departments[v], projects[v]))]
            /\ nextEmployeeId' = [v \in Variants |-> nextEmployeeId[v] + 1]
    /\ UNCHANGED req

(* ------------------------------ requests ------------------------------- *)

\* A JSON body: the keys given with a value, and the keys given as null.
Json(body, nulls) == [body |-> body, nulls |-> nulls]
NoBody == Json(<<>>, {})

Tokens ==
    { <<"supersecret", ":", "1">>,            \* the seeded user
      <<"supersecret", ":", "2">>,            \* no such user
      <<"supersecret", ":", "abc">>,          \* no number
      <<"wrong", ":", "1">>,
      <<"supersecret">>,
      <<"supersecret", ":", "1", ":", "1">> }

SeededUser == Bearer(<<"supersecret", ":", "1">>)
Headers == {NoHeader} \cup {Bearer(t) : t \in Tokens}

CreateBodies ==
    { Json([first_name |-> Al, last_name |-> Lee], {}),
      Json([first_name |-> AlPadded, last_name |-> Lee, department_id |-> 1,
            project_ids |-> <<2, 1, 2>>, birthdate |-> Bday], {}),
      Json([first_name |-> Al, last_name |-> Lee, project_ids |-> <<3>>], {}),
      Json([last_name |-> Lee], {}) }

UpdateBodies ==
    { Json([last_name |-> Lee], {}),
      Json([first_name |-> AlPadded], {}),
      Json([project_ids |-> <<>>], {}),
      Json([department_id |-> 2, project_ids |-> <<2>>], {}),
      Json([last_name |-> Lee, project_ids |-> <<3>>], {}),
      Json(<<>>, {"first_name"}) }

CrudCreateBodies ==
    { Json([first_name |-> Al, last_name |-> Lee], {}),
      Json([first_name |-> AlPadded, last_name |-> Lee, department_id |-> 1,
            project_ids |-> <<2, 1, 2>>, birthdate |-> Bday], {}),
      Json([first_name |-> Al, last_name |-> Lee, project_ids |-> <<1>>], {}) }

PathIds == 1..(MaxEmployees + 1)

Request(variant, method, id, json, header) ==
    [variant |-> variant, method |-> method, id |-> id, json |-> json,
     authorization |-> header]

\* every request with the seeded user's token, and one request per endpoint
\* with each of the other headers
BasicRequests ==
    {Request("basic", "LIST", NoId, NoBody, h) : h \in Headers}
    \cup {Request("basic", "POST", NoId, j, SeededUser) : j \in CreateBodies}
    \cup {Request("basic", "POST", NoId, Json([first_name |-> Al, last_name |-> Lee], {}), h) :
            h \in Headers}
    \cup {Request("basic", m, i, NoBody, SeededUser) : m \in {"GET", "DELETE"}, i \in PathIds}
    \cup {Request("basic", m, 1, NoBody, h) : m \in {"GET", "DELETE"}, h \in Headers}
    \cup {Request("basic", "PATCH", i, j, SeededUser) : i \in PathIds, j \in UpdateBodies}
    \cup {Request("basic", "PATCH", 1, Json([last_name |-> Lee], {}), h) : h \in Headers}

CrudRequests ==
    {Request("ninja_crud", "POST", NoId, j, SeededUser) : j \in CrudCreateBodies}
    \cup {Request("ninja_crud", "POST", NoId,
                  Json([first_name |-> Al, last_name |-> Lee, project_ids |-> <<1>>], {}), h) :
            h \in Headers}

(* ----------------------------- validation ------------------------------ *)

StripStrings(d) ==
    [k \in DOMAIN d |-> IF k \in {"first_name", "last_name"} THEN Strip(d[k]) ELSE d[k]]

\* a faulty schema: a birthdate left out defaults to the day of the request
EmployeeRequestBirthdateToday(json) ==
    LET d == StripStrings(json.body) IN
    [first_name |-> d.first_name, last_name |-> d.last_name,
     department_id |-> Get(d, "department_id", NoId),
     project_ids |-> Get(d, "project_ids", <<>>),
     birthdate |-> Get(d, "birthdate", Today)]

\* EmployeeRequest of company_basic
EmployeeRequestValid(json) ==
    json.nulls = {} /\ {"first_name", "last_name"} \subseteq DOMAIN json.body

EmployeeRequest(json) ==
    LET d == StripStrings(json.body) IN
    [first_name |-> d.first_name, last_name |-> d.last_name,
     department_id |-> Get(d, "department_id", NoId),
     project_ids |-> Get(d, "project_ids", <<>>),
     birthdate |-> Get(d, "birthdate", None)]

\* EmployeeRequest of company_ninja_crud: projects, alias project_ids, has no
\* default
CrudEmployeeRequestValid(json) ==
    json.nulls = {}
    /\ {"first_name", "last_name", "project_ids"} \subseteq DOMAIN json.body

CrudEmployeeRequest(json) ==
    LET d == StripStrings(json.body) IN
    [first_name |-> d.first_name, last_name |-> d.last_name,
     department_id |-> Get(d, "department_id", NoId),
     projects |-> d.project_ids,
     birthdate |-> Get(d, "birthdate", None)]

\* EmployeeUpdateRequest, and data.model_dump(exclude_unset=True)
EmployeeUpdateRequestValid(json) == json.nulls = {}
provided_data(json) == StripStrings(json.body)

Valid(r) ==
    CASE r.method = "POST" /\ r.variant = "basic" -> EmployeeRequestValid(r.json)
      [] r.method = "POST" /\ r.variant = "ninja_crud" -> CrudEmployeeRequestValid(r.json)
      [] r.method = "PATCH" -> EmployeeUpdateRequestValid(r.json)
      [] OTHER -> TRUE

Data(r) ==
    CASE r.method = "POST" /\ r.variant = "basic" -> EmployeeRequest(r.json)
      [] r.method = "POST" /\ r.variant = "ninja_crud" -> CrudEmployeeRequest(r.json)
      [] r.method = "PATCH" -> provided_data(r.json)
      [] OTHER -> <<>>

(* ------------------------- receive and respond ------------------------- *)

Database == [users |-> users, departments |-> departments, projects |-> projects,
             employees |-> employees]

NoInstance == [id |-> NoId]

\* the answer decided before the handler, 0 when the handler is to run
StatusBeforeHandler(r, us) ==
    LET outcome == AuthOutcome(r.variant, us, r.authorization) IN
    IF outcome = "unauthenticated" THEN 401
    ELSE IF outcome = "error" THEN 500
    ELSE IF ~Valid(r) THEN 422
    ELSE 0

\* employees the API has created in an app
ApiCreated(v) == nextEmployeeId[v] - 1 - (Cardinality(departments[v]) \div 2)

Arrive(w, r) ==
    LET status == StatusBeforeHandler(r, users) IN
    /\ req[w].pc = "idle"
    /\ r.method = "POST" => ApiCreated(r.variant) < MaxEmployees
    /\ req' = [req EXCEPT ![w] =
           [pc |-> IF status = 0 THEN "handler" ELSE "done",
            variant |-> r.variant, method |-> r.method, id |-> r.id,
            json |-> r.json, authorization |-> r.authorization,
            user |-> RequestUser(r.variant, users, r.authorization),
            data |-> IF status = 0 THEN Data(r) ELSE <<>>,
            instance |-> NoInstance, status |-> status, body |-> {},
            ran |-> FALSE, pre |-> Database]]
    /\ UNCHANGED <<users, departments, projects, employees, nextEmployeeId, seedRuns>>

Receive(w) == \E r \in BasicRequests \cup CrudRequests : Arrive(w, r)

Respond(w) ==
    /\ req[w].pc = "done"
    /\ req' = [req EXCEPT ![w] = Idle]
    /\ UNCHANGED <<users, departments, projects, employees, nextEmployeeId, seedRuns>>

Finish(w, status, body) ==
    req' = [req EXCEPT ![w].pc = "done", ![w].status = status, ![w].body = body,
                       ![w].ran = TRUE]

At(w, variant, method, pc) ==
    req[w].pc = pc /\ req[w].variant = variant /\ req[w].method = method

(* ---------------------- company_basic: handlers ------------------------ *)

Scalars(row) ==
    [first_name |-> row.first_name, last_name |-> row.last_name,
     department_id |-> row.department_id, birthdate |-> row.birthdate]

Row(scalars, ps) ==
    [first_name |-> scalars.first_name, last_name |-> scalars.last_name,
     department_id |-> scalars.department_id, birthdate |-> scalars.birthdate,
     projects |-> ps]

\* get_object_or_404
Found(v, id) == id \in EmployeeIds(v)

\* get_employees; a page holds more rows than the model ever has
get_employees(w) ==
    /\ At(w, "basic", "LIST", "handler")
    /\ \E q \in [EmployeeIds("basic") -> UNION {Orders(S) : S \in SUBSET ProjectIds("basic")}] :
          /\ \A i \in EmployeeIds("basic") : q[i] \in resolve_project_ids(employees["basic"][i])
          /\ Finish(w, 200, {EmployeeResponse(i, employees["basic"][i], q[i]) :
                               i \in EmployeeIds("basic")})
    /\ UNCHANGED <<users, departments, projects, employees, nextEmployeeId, seedRuns>>

\* create_employee, Employee.objects.create(...).  A refused INSERT takes no id.
create_employee_create(w) ==
    LET data == req[w].data
        id == nextEmployeeId["basic"]
        row == Row(data, {}) IN
    /\ At(w, "basic", "POST", "handler")
    /\ IF EmployeeRowOk("basic", row)
       THEN /\ employees' = [employees EXCEPT !["basic"] = Put(@, id, row)]
            /\ nextEmployeeId' = [nextEmployeeId EXCEPT !["basic"] = @ + 1]
            /\ req' = [req EXCEPT ![w].pc = "set", ![w].ran = TRUE,
                                  ![w].instance = [id |-> id] @@ Scalars(row)]
       ELSE /\ Finish(w, 500, {})
            /\ UNCHANGED <<employees, nextEmployeeId>>
    /\ UNCHANGED <<users, departments, projects, seedRuns>>

\* create_employee, employee.projects.set(data.project_ids) and the response
create_employee_set(w) ==
    LET data == req[w].data
        id == req[w].instance.id IN
    /\ At(w, "basic", "POST", "set")
    /\ IF Found("basic", id) /\ ProjectsSetOk("basic", data.project_ids)
       THEN /\ employees' = [employees EXCEPT !["basic"][id].projects =
                                ProjectsSet(data.project_ids)]
            /\ \E q \in Orders(ProjectsSet(data.project_ids)) :
                  Finish(w, 201, {EmployeeResponse(id, req[w].instance, q)})
       ELSE /\ Finish(w, 500, {})
            /\ UNCHANGED employees
    /\ UNCHANGED <<users, departments, projects, nextEmployeeId, seedRuns>>

\* get_employee
get_employee(w) ==
    LET id == req[w].id IN
    /\ At(w, "basic", "GET", "handler")
    /\ IF Found("basic", id)
       THEN \E q \in resolve_project_ids(employees["basic"][id]) :
               Finish(w, 200, {EmployeeResponse(id, employees["basic"][id], q)})
       ELSE Finish(w, 404, {})
    /\ UNCHANGED <<users, departments, projects, employees, nextEmployeeId, seedRuns>>

\* update_employee, get_object_or_404(Employee.objects.prefetch_related(...)):
\* the instance holds the row's fields and the prefetched projects
update_employee_fetch(w) ==
    LET id == req[w].id IN
    /\ At(w, "basic", "PATCH", "handler")
    /\ IF Found("basic", id)
       THEN req' = [req EXCEPT ![w].pc = "save", ![w].ran = TRUE,
                               ![w].instance = [id |-> id] @@ employees["basic"][id]]
       ELSE Finish(w, 404, {})
    /\ UNCHANGED <<users, departments, projects, employees, nextEmployeeId, seedRuns>>

\* a faulty merge: a birthdate left out is assigned the payload's default
ApplyProvidedResetBirthdate(instance, pd) ==
    [instance EXCEPT
        !.first_name = Get(pd, "first_name", instance.first_name),
        !.last_name = Get(pd, "last_name", instance.last_name),
        !.department_id = Get(pd, "department_id", instance.department_id),
        !.birthdate = Get(pd, "birthdate", None)]

\* update_employee, the four assignments from provided_data
ApplyProvided(instance, pd) ==
    [instance EXCEPT
        !.first_name = Get(pd, "first_name", instance.first_name),
        !.last_name = Get(pd, "last_name", instance.last_name),
        !.department_id = Get(pd, "department_id", instance.department_id),
        !.birthdate = Get(pd, "birthdate", instance.birthdate)]

\* a faulty test: the list is applied whenever the payload has it
ShouldSetProjectsWhenPresent(pd) == "project_ids" \in DOMAIN pd

\* `if project_ids := provided_data.get("project_ids", None)`
ShouldSetProjects(pd) == Get(pd, "project_ids", <<>>) # <<>>

\* update_employee, instance.save(): every column of the row is written; a
\* row that is gone is inserted again.  Without a set to follow, the response
\* lists the prefetched projects.
update_employee_save(w) ==
    LET id == req[w].id
        pd == req[w].data
        instance == ApplyProvided(req[w].instance, pd)
        kept == IF Found("basic", id) THEN employees["basic"][id].projects ELSE {}
        row == Row(instance, kept) IN
    /\ At(w, "basic", "PATCH", "save")
    /\ IF EmployeeRowOk("basic", row)
       THEN /\ employees' = [employees EXCEPT !["basic"] = Put(@, id, row)]
            /\ IF ShouldSetProjects(pd)
               THEN req' = [req EXCEPT ![w].pc = "set", ![w].instance = instance]
               ELSE \E q \in Orders(instance.projects) :
                       req' = [req EXCEPT ![w].pc = "done", ![w].status = 200,
                                          ![w].instance = instance,
                                          ![w].body = {EmployeeResponse(id, instance, q)}]
       ELSE /\ Finish(w, 500, {})
            /\ UNCHANGED employees
    /\ UNCHANGED <<users, departments, projects, nextEmployeeId, seedRuns>>

\* update_employee, instance.projects.set(project_ids) and the response
update_employee_set(w) ==
    LET id == req[w].id
        ids == req[w].data.project_ids IN
    /\ At(w, "basic", "PATCH", "set")
    /\ IF Found("basic", id) /\ ProjectsSetOk("basic", ids)
       THEN /\ employees' = [employees EXCEPT !["basic"][id].projects = ProjectsSet(ids)]
            /\ \E q \in Orders(ProjectsSet(ids)) :
                  Finish(w, 200, {EmployeeResponse(id, req[w].instance, q)})
       ELSE /\ Finish(w, 500, {})
            /\ UNCHANGED employees
    /\ UNCHANGED <<users, departments, projects, nextEmployeeId, seedRuns>>

\* a faulty delete: the rows with the id are deleted without looking the
\* employee up
delete_employee_unchecked(w) ==
    /\ At(w, "basic", "DELETE", "handler")
    /\ employees' = [employees EXCEPT !["basic"] = Remove(@, req[w].id)]
    /\ Finish(w, 204, {})
    /\ UNCHANGED <<users, departments, projects, nextEmployeeId, seedRuns>>

\* delete_employee
delete_employee(w) ==
    LET id == req[w].id IN
    /\ At(w, "basic", "DELETE", "handler")
    /\ IF Found("basic", id)
       THEN /\ employees' = [employees EXCEPT !["basic"] = Remove(@, id)]
            /\ Finish(w, 204, {})
       ELSE /\ Finish(w, 404, {})
            /\ UNCHANGED employees
    /\ UNCHANGED <<users, departments, projects, nextEmployeeId, seedRuns>>

(* --------------------- company_ninja_crud: create ---------------------- *)

\* EmployeeViewSet.create_department = views.CreateView(): the validated body
\* becomes an Employee with its projects; a body the model refuses is answered
\* with an error (which one is the view's business) and no row.
crud_create_employee(w) ==
    LET data == req[w].data
        id == nextEmployeeId["ninja_crud"]
        row == Row(data, ProjectsSet(data.projects)) IN
    /\ At(w, "ninja_crud", "POST", "handler")
    /\ IF EmployeeRowOk("ninja_crud", row) /\ ProjectsSetOk("ninja_crud", data.projects)
       THEN /\ employees' = [employees EXCEPT !["ninja_crud"] = Put(@, id, row)]
            /\ nextEmployeeId' = [nextEmployeeId EXCEPT !["ninja_crud"] = @ + 1]
            /\ \E q \in Orders(row.projects) :
                  Finish(w, 201, {EmployeeResponse(id, row, q)})
       ELSE /\ \E status \in {400, 500} : Finish(w, status, {})
            /\ UNCHANGED <<employees, nextEmployeeId>>
    /\ UNCHANGED <<users, departments, projects, seedRuns>>

(* --------------------------- specifications ---------------------------- *)

Init ==
    /\ users = {}
    /\ departments = [v \in Variants |-> {}]
    /\ projects = [v \in Variants |-> {}]
    /\ employees = [v \in Variants |-> <<>>]
    /\ nextEmployeeId = [v \in Variants |-> 1]
    /\ seedRuns = 0
    /\ req = [w \in Workers |-> Idle]

Handler(w) ==
    \/ get_employees(w)
    \/ create_employee_create(w)
    \/ create_employee_set(w)
    \/ get_employee(w)
    \/ update_employee_fetch(w)
    \/ update_employee_save(w)
    \/ update_employee_set(w)
    \/ delete_employee(w)
    \/ crud_create_employee(w)

\* one request at a time
Next ==
    \/ Seed
    \/ Receive(1)
    \/ Handler(1)
    \/ Respond(1)

Spec == Init /\ [][Next]_vars

\* Two workers: PATCH requests of the seeded user on employee 1 interleave at
\* their database calls.
ConcRequests ==
    {Request("basic", "PATCH", 1, j, SeededUser) :
        j \in { Json([last_name |-> Lee], {}),
                Json([first_name |-> AlPadded], {}),
                Json([department_id |-> 2, project_ids |-> <<2>>], {}) }}

ReceiveConc(w) == \E r \in ConcRequests : Arrive(w, r)

NextConc ==
    \/ Seed
    \/ \E w \in Workers :
          \/ ReceiveConc(w)
          \/ update_employee_fetch(w)
          \/ update_employee_save(w)
          \/ update_employee_set(w)
          \/ Respond(w)

SpecConc == Init /\ [][NextConc]_vars

(* ------------------------------- claims -------------------------------- *)

Done(w) == req[w].pc = "done"
InFlight(w) == req[w].pc # "idle"
Is(w, variant, method) == InFlight(w) /\ req[w].variant = variant /\ req[w].method = method

\* the project association of a row under its wire name
Field(row, f) == IF f = "project_ids" THEN row.projects ELSE row[f]
WireFields == {"first_name", "last_name", "department_id", "birthdate", "project_ids"}

\* the request had a token the gate let through
Authenticated(w) ==
    /\ req[w].authorization # NoHeader
    /\ LET a == Gate(req[w].variant, req[w].pre.users, Tail(req[w].authorization)) IN
       ~a.raised /\ a.ret # NoUser

\* C1: a PATCH /employees/{id} changes, of the employee it names, no field
\* that its payload leaves out, and changes no other employee.
C1_PartialUpdateFrame ==
    \A w \in Workers :
        Is(w, "basic", "PATCH") =>
            LET before == req[w].pre.employees["basic"]
                now == employees["basic"]
                id == req[w].id IN
            /\ DOMAIN now = DOMAIN before
            /\ \A i \in DOMAIN before \ {id} : now[i] = before[i]
            /\ id \in DOMAIN before =>
                  \A f \in WireFields \ DOMAIN req[w].json.body :
                      Field(now[id], f) = Field(before[id], f)

\* a PATCH carrying only last_name has changed it, on an employee with
\* projects, with another employee in the table
C1_Witness ==
    \E w \in Workers :
        /\ Is(w, "basic", "PATCH") /\ Done(w) /\ req[w].status = 200
        /\ DOMAIN req[w].json.body = {"last_name"}
        /\ req[w].pre.employees["basic"][req[w].id].last_name # Lee
        /\ employees["basic"][req[w].id].last_name = Lee
        /\ employees["basic"][req[w].id].projects # {}
        /\ Cardinality(EmployeeIds("basic")) > 1

\* C2: POST /employees/ with a list of existing project ids creates an
\* employee associated with exactly the ids of the list, and a GET of an
\* employee returns its associated ids, each once, in some order.
C2_CreateReadRoundTrip ==
    \A w \in Workers :
        /\ (Is(w, "basic", "POST") /\ Done(w) /\ req[w].ran) =>
              LET L == req[w].data.project_ids
                  id == req[w].instance.id
                  before == req[w].pre IN
              /\ ( /\ Range(L) \subseteq {p.id : p \in before.projects["basic"]}
                   /\ req[w].data.department_id \in
                         {NoId} \cup {d.id : d \in before.departments["basic"]} )
                    => req[w].status = 201
              /\ req[w].status = 201 =>
                    /\ id \notin DOMAIN before.employees["basic"]
                    /\ employees["basic"][id].projects = Range(L)
                    /\ \A b \in req[w].body : b.id = id /\ Range(b.project_ids) = Range(L)
        /\ (Is(w, "basic", "GET") /\ Done(w) /\ req[w].status = 200) =>
              \A b \in req[w].body :
                  /\ b.id = req[w].id
                  /\ Range(b.project_ids) = employees["basic"][req[w].id].projects
                  /\ Len(b.project_ids) = Cardinality(Range(b.project_ids))

\* the employee created with project_ids [2, 1, 2] is read back with the
\* ids 2 and 1, in that order
C2_Witness ==
    \E w \in Workers :
        /\ Is(w, "basic", "GET") /\ Done(w) /\ req[w].status = 200
        /\ \E b \in req[w].body :
              /\ b.project_ids = <<2, 1>>
              /\ b.first_name = Al /\ b.birthdate = Bday

\* C3: GET, PATCH and DELETE /employees/{id} that reach their handler answer
\* 404 exactly when no employee has the id, and a 404 changes nothing.
C3_NotFoundIffAbsent ==
    \A w \in Workers :
        (Done(w) /\ req[w].variant = "basic" /\ req[w].method \in {"GET", "PATCH", "DELETE"}) =>
            /\ req[w].ran =>
                  (req[w].status = 404 <=> req[w].id \notin DOMAIN req[w].pre.employees["basic"])
            /\ req[w].status = 404 => req[w].ran /\ Database = req[w].pre

\* a DELETE of an id whose employee was deleted earlier is answered 404
C3_Witness ==
    \E w \in Workers :
        /\ Is(w, "basic", "DELETE") /\ Done(w) /\ req[w].status = 404
        /\ req[w].id < nextEmployeeId["basic"]
        /\ req[w].id \notin EmployeeIds("basic")

\* C4: a request without a token, or whose token the gate rejects, is
\* answered 401, its handler never runs and nothing persisted changes.
C4_AuthPrecedesHandler ==
    \A w \in Workers :
        (InFlight(w) /\ ~Authenticated(w)
                     /\ ~(req[w].authorization # NoHeader
                          /\ Gate(req[w].variant, req[w].pre.users,
                                  Tail(req[w].authorization)).raised)) =>
            /\ Done(w) /\ req[w].status = 401
            /\ ~req[w].ran
            /\ Database = req[w].pre

\* on the seeded database a POST to company_ninja_crud under a well-formed
\* token that names no user has been answered 401
C4_Witness ==
    \E w \in Workers :
        /\ Is(w, "ninja_crud", "POST") /\ Done(w) /\ req[w].status = 401
        /\ req[w].authorization = Bearer(<<"supersecret", ":", "2">>)
        /\ users # {}

\* C5 (as claimed): the gate of company_ninja_crud fails exactly when the
\* token has not two parts or its first part is not the secret.
C5_GateFailsIffMalformed ==
    \A w \in Workers :
        (InFlight(w) /\ req[w].variant = "ninja_crud" /\ req[w].authorization # NoHeader) =>
            LET split == Split(Tail(req[w].authorization)) IN
            (req[w].status = 401) <=> (Len(split) # 2 \/ split[1] # Secret)

\* C6 (as claimed): an authenticated POST with only first_name and last_name
\* is answered 201 in both apps.
C6_MinimalCreateBothVariants ==
    \A w \in Workers :
        (Done(w) /\ req[w].method = "POST" /\ Authenticated(w)
                 /\ req[w].json = Json([first_name |-> Al, last_name |-> Lee], {})) =>
            req[w].status = 201

\* C6 (amended): such a POST is answered 201 by company_basic, which persists
\* one new employee with no department, no birthdate and no projects; by
\* company_ninja_crud it is answered 422 and nothing is persisted.
C6_MinimalCreate ==
    \A w \in Workers :
        (Done(w) /\ req[w].method = "POST" /\ Authenticated(w)
                 /\ req[w].json = Json([first_name |-> Al, last_name |-> Lee], {})) =>
            IF req[w].variant = "basic"
            THEN LET before == req[w].pre.employees["basic"]
                     id == req[w].instance.id IN
                 /\ req[w].status = 201
                 /\ id \notin DOMAIN before
                 /\ DOMAIN employees["basic"] = DOMAIN before \cup {id}
                 /\ \A i \in DOMAIN before : employees["basic"][i] = before[i]
                 /\ employees["basic"][id] =
                       [first_name |-> Al, last_name |-> Lee, department_id |-> NoId,
                        birthdate |-> None, projects |-> {}]
            ELSE /\ req[w].status = 422
                 /\ ~req[w].ran
                 /\ Database = req[w].pre

\* both apps have answered a minimal POST: company_basic's employee is there
C6_Witness ==
    \E w \in Workers :
        /\ Is(w, "basic", "POST") /\ Done(w) /\ req[w].status = 201
        /\ req[w].json = Json([first_name |-> Al, last_name |-> Lee], {})
        /\ users # {}

\* C7: a PATCH whose project_ids is the empty list leaves the employee's
\* projects as they were; one whose project_ids is a non-empty list of
\* projects replaces them with the list.
C7_EmptyProjectIdsKeeps ==
    \A w \in Workers :
        (Is(w, "basic", "PATCH") /\ Done(w) /\ req[w].status = 200
             /\ "project_ids" \in DOMAIN req[w].json.body) =>
            LET L == req[w].json.body.project_ids
                id == req[w].id IN
            IF L = <<>>
            THEN employees["basic"][id].projects = req[w].pre.employees["basic"][id].projects
            ELSE employees["basic"][id].projects = Range(L)

\* a PATCH with project_ids [] on an employee that has projects
C7_Witness ==
    \E w \in Workers :
        /\ Is(w, "basic", "PATCH") /\ Done(w) /\ req[w].status = 200
        /\ "project_ids" \in DOMAIN req[w].json.body
        /\ req[w].json.body.project_ids = <<>>
        /\ req[w].pre.employees["basic"][req[w].id].projects # {}

\* C8 (as claimed): a create or a PATCH (here: of a user of the table) that
\* fails leaves the persisted state as it was before the request.
C8_FailureLeavesNoTrace ==
    \A w \in Workers :
        (Done(w) /\ req[w].variant = "basic" /\ req[w].method \in {"POST", "PATCH"}
                 /\ req[w].user # NoUser /\ req[w].user \subseteq req[w].pre.users
                 /\ req[w].status \notin {200, 201}) =>
            Database = req[w].pre

\* C9 (as claimed): after n runs of the seed command each app has n copies of
\* the seeded rows.
C9_SeedAddsEachRun ==
    \A v \in Variants :
        /\ Cardinality(departments[v]) = 2 * seedRuns
        /\ Cardinality(projects[v]) = 2 * seedRuns

\* C9 (amended): the first run adds the demo user and, per app, two
\* departments, one project in each and one employee; a run on a seeded
\* database stops at create_user and adds nothing, so the seeded rows are
\* there once however often the command has run.
C9_SeedOnce ==
    LET n == IF seedRuns >= 1 THEN 1 ELSE 0 IN
    /\ Cardinality(users) = n
    /\ \A v \in Variants :
          /\ Cardinality(departments[v]) = 2 * n
          /\ Cardinality(projects[v]) = 2 * n
          /\ \A d \in departments[v] :
                Cardinality({p \in projects[v] : p.department_id = d.id}) = 1
          /\ Cardinality({i \in EmployeeIds(v) : employees[v][i].first_name = Bob}) <= n

\* the command has run twice
C9_Witness ==
    seedRuns = 2 /\ \A v \in Variants : Cardinality(departments[v]) = 2

\* C10 (as claimed): two PATCH requests on one employee, one giving only
\* first_name and one only last_name, both answered 200: the employee has
\* both new values however their steps interleaved.
C10_NoLostUpdate ==
    \A w1, w2 \in Workers :
        ( /\ Is(w1, "basic", "PATCH") /\ Done(w1) /\ req[w1].status = 200
          /\ Is(w2, "basic", "PATCH") /\ Done(w2) /\ req[w2].status = 200
          /\ req[w1].id = req[w2].id
          /\ req[w1].json = Json([first_name |-> AlPadded], {})
          /\ req[w2].json = Json([last_name |-> Lee], {}) ) =>
            /\ employees["basic"][req[w1].id].first_name = Al
            /\ employees["basic"][req[w1].id].last_name = Lee

====
